---- MODULE Spec2Model ----
(***************************************************************************)
(* Model of the ERC3 store agent runner: main.py (argument handling, task  *)
(* selection, the sequential task loop, session submission) and the tool   *)
(* adapters of store_agent.py (uniform error encoding around               *)
(* store_api.dispatch).                                                    *)
(*                                                                         *)
(* The benchmark harness (ERC3: start_task, complete_task, submit_session) *)
(* and the basket service behind store_api.dispatch are external           *)
(* libraries.  Harness calls are modelled as calls that return; what they  *)
(* return (the evaluation of a task, the outcome of a dispatch) is chosen  *)
(* nondeterministically.                                                   *)
(***************************************************************************)
EXTENDS Integers, Sequences, FiniteSets, TLC

\* ------------------------------------------------------------------ bounds
MaxTasks == 3      \* the session holds 0..MaxTasks tasks
MaxArgLen == 3     \* the -t argument is a string of at most MaxArgLen characters
MaxToolCalls == 2  \* tool calls the agent makes within one task

\* ------------------------------------------------------------------ strings
\* A Python str is a sequence of one-character strings.
Digits == {"0", "1", "2", "3", "4"}
Chars == Digits \cup {"-", "x"}

RECURSIVE StringsUpTo(_)
StringsUpTo(n) ==
  IF n = 0 THEN {<<>>}
  ELSE LET shorter == StringsUpTo(n - 1)
       IN shorter \cup {Append(s, c) : s \in {t \in shorter : Len(t) = n - 1}, c \in Chars}

None == <<"None">>
Str(s) == <<"str", s>>
TaskArgs == {None} \cup {Str(s) : s \in StringsUpTo(MaxArgLen)}

DigitVal(c) ==
  CASE c = "0" -> 0 [] c = "1" -> 1 [] c = "2" -> 2 [] c = "3" -> 3 [] c = "4" -> 4

\* int(s) for a str: <<"ok", n>> or <<"ValueError">> (empty, or a non-digit).
RECURSIVE DecimalValue(_)
DecimalValue(s) ==
  IF s = <<>> THEN 0
  ELSE 10 * DecimalValue(SubSeq(s, 1, Len(s) - 1)) + DigitVal(s[Len(s)])

int(s) ==
  IF s = <<>> \/ \E i \in 1..Len(s) : s[i] \notin Digits
  THEN <<"ValueError">>
  ELSE <<"ok", DecimalValue(s)>>

\* "-" in s
HasDash(s) == \E i \in 1..Len(s) : s[i] = "-"

\* s.split("-"): the maximal dash-free pieces, in order (k dashes give k+1 parts).
RECURSIVE split(_)
split(s) ==
  IF ~HasDash(s) THEN <<s>>
  ELSE LET i == CHOOSE j \in 1..Len(s) : s[j] = "-" /\ \A k \in 1..(j - 1) : s[k] # "-"
       IN <<SubSeq(s, 1, i - 1)>> \o split(SubSeq(s, i + 1, Len(s)))

\* ------------------------------------------------------------------ parse_task_range
\* A validation that forgets the upper bound.
InvalidRange_NoUpperBound(start, end, max_tasks) == start < 1 \/ start > end

\* The validation of lines 68-70.
InvalidRange(start, end, max_tasks) == start < 1 \/ end > max_tasks \/ start > end

\* parse_task_range(task_arg, max_tasks): <<"ok", start, end>> or <<"ValueError">>.
parse_task_range(task_arg, max_tasks) ==
  LET parts == split(task_arg)
      first == IF HasDash(task_arg) THEN int(parts[1]) ELSE int(task_arg)
      second == IF HasDash(task_arg) THEN int(parts[2]) ELSE first
  IN IF first[1] # "ok" \/ second[1] # "ok" THEN <<"ValueError">>
     ELSE IF InvalidRange(first[2], second[2], max_tasks) THEN <<"ValueError">>
     ELSE <<"ok", first[2], second[2]>>

\* ------------------------------------------------------------------ tool adapters
\* A JSON object is the set of its <<key, value>> members.
Keys(json) == {m[1] : m \in json}

\* error_json(message): json.dumps({"error": message})
error_json(message) == {<<"error", message>>}

\* result.model_dump_json(exclude_none=True, exclude_unset=True): a response is a
\* function from field names to <<>> (None / unset) or <<value>>.
model_dump_json(result) ==
  {<<f, result[f][1]>> : f \in {g \in DOMAIN result : result[g] # <<>>}}

ToolNames ==
  {"list_products", "view_basket", "add_product_to_basket", "remove_item_from_basket",
   "apply_coupon", "remove_coupon", "checkout_basket"}

\* The messages an error carries (ApiException.detail, or str(e) of any other one).
Messages == {"not found", "timeout"}

\* The response objects of the basket service, per request (fields as the tools'
\* docstrings name them).
Responses(tool) ==
  CASE tool = "list_products" ->
         {[Products |-> <<"p">>, NextOffset |-> <<"-1">>],
          [Products |-> <<>>, NextOffset |-> <<"-1">>]}
    [] tool = "view_basket" ->
         {[Items |-> <<"i">>, Coupon |-> <<"c">>, Discount |-> <<"d">>, Total |-> <<"t">>],
          [Items |-> <<>>, Coupon |-> <<>>, Discount |-> <<>>, Total |-> <<>>]}
    [] tool = "apply_coupon" -> {[Discount |-> <<"d">>], [Discount |-> <<>>]}
    [] tool = "checkout_basket" -> {[OrderId |-> <<"o">>]}
    [] OTHER -> {[Status |-> <<>>]}

\* What constructing the request and store_api.dispatch(req) can do inside the
\* adapter's try block: return a response, raise ApiException(detail), or raise
\* any other Exception.
Outcomes(tool) ==
  {<<"ok", r>> : r \in Responses(tool)}
  \cup {<<"ApiException", m>> : m \in Messages}
  \cup {<<"Exception", m>> : m \in Messages}

\* Each adapter returns <<"return", json>>; <<"raise", m>> would be a propagated
\* failure.
list_products(outcome) ==
  CASE outcome[1] = "ok" -> <<"return", model_dump_json(outcome[2])>>
    [] outcome[1] = "ApiException" -> <<"return", error_json(outcome[2])>>
    [] outcome[1] = "Exception" -> <<"return", error_json(outcome[2])>>

view_basket(outcome) ==
  CASE outcome[1] = "ok" -> <<"return", model_dump_json(outcome[2])>>
    [] outcome[1] = "ApiException" -> <<"return", error_json(outcome[2])>>
    [] outcome[1] = "Exception" -> <<"return", error_json(outcome[2])>>

add_product_to_basket(outcome) ==
  CASE outcome[1] = "ok" -> <<"return", model_dump_json(outcome[2])>>
    [] outcome[1] = "ApiException" -> <<"return", error_json(outcome[2])>>
    [] outcome[1] = "Exception" -> <<"return", error_json(outcome[2])>>

remove_item_from_basket(outcome) ==
  CASE outcome[1] = "ok" -> <<"return", model_dump_json(outcome[2])>>
    [] outcome[1] = "ApiException" -> <<"return", error_json(outcome[2])>>
    [] outcome[1] = "Exception" -> <<"return", error_json(outcome[2])>>

apply_coupon(outcome) ==
  CASE outcome[1] = "ok" -> <<"return", model_dump_json(outcome[2])>>
    [] outcome[1] = "ApiException" -> <<"return", error_json(outcome[2])>>
    [] outcome[1] = "Exception" -> <<"return", error_json(outcome[2])>>

remove_coupon(outcome) ==
  CASE outcome[1] = "ok" -> <<"return", model_dump_json(outcome[2])>>
    [] outcome[1] = "ApiException" -> <<"return", error_json(outcome[2])>>
    [] outcome[1] = "Exception" -> <<"return", error_json(outcome[2])>>

\* A checkout adapter that lets the unexpected failure escape.
checkout_basket_reraise(outcome) ==
  CASE outcome[1] = "ok" -> <<"return", model_dump_json(outcome[2])>>
    [] outcome[1] = "ApiException" -> <<"return", error_json(outcome[2])>>
    [] outcome[1] = "Exception" -> <<"raise", outcome[2]>>

checkout_basket(outcome) ==
  CASE outcome[1] = "ok" -> <<"return", model_dump_json(outcome[2])>>
    [] outcome[1] = "ApiException" -> <<"return", error_json(outcome[2])>>
    [] outcome[1] = "Exception" -> <<"return", error_json(outcome[2])>>

\* The tool list create_store_tools returns: the agent invokes a tool by name.
create_store_tools(tool, outcome) ==
  CASE tool = "list_products" -> list_products(outcome)
    [] tool = "view_basket" -> view_basket(outcome)
    [] tool = "add_product_to_basket" -> add_product_to_basket(outcome)
    [] tool = "remove_item_from_basket" -> remove_item_from_basket(outcome)
    [] tool = "apply_coupon" -> apply_coupon(outcome)
    [] tool = "remove_coupon" -> remove_coupon(outcome)
    [] tool = "checkout_basket" -> checkout_basket(outcome)

\* ------------------------------------------------------------------ main: state
VARIABLES
  args_task,        \* args.task: None or Str(s)
  args_stop_on_fail,\* args.stop_on_fail
  args_list,        \* args.list
  tasks,            \* status.tasks, the session's tasks in order
  pc,               \* position in main()
  run_all,          \* main's run_all
  parsed,           \* what parse_task_range returned or raised, None before the call
  tasks_to_run,     \* sequence of <<task_num, task>>
  idx,              \* 1-based position of the for loop in tasks_to_run
  completed_count,
  stopped_early,
  calls,            \* the harness calls made so far, in order (complete_task with
                    \* the result.eval it returned)
  raised_in,        \* tasks whose run_agent raised
  tool_calls,       \* tool calls the running agent has made
  last_call         \* the last tool call of the running agent, None if none yet

vars ==
  <<args_task, args_stop_on_fail, args_list, tasks, pc, run_all, parsed, tasks_to_run,
    idx, completed_count, stopped_early, calls, raised_in, tool_calls, last_call>>

\* status.tasks of a session with n tasks: distinct task ids, in order.
SessionTasks(n) == [i \in 1..n |-> 10 * i]

\* result.eval of complete_task: None, or an evaluation with a score.
Scores == {0, 1}
Evals == {None} \cup {<<"eval", s>> : s \in Scores}

\* seq[-(j + 1)]: indexing from the end of the list.
PyIndex_FromEnd(seq, j) == seq[Len(seq) - j]

\* seq[j] of a Python list (0-based)
PyIndex(seq, j) == seq[j + 1]

\* truthiness of args.task (None and "" are falsy)
Truthy(arg) == arg # None /\ arg[2] # <<>>

Init ==
  /\ args_task \in TaskArgs
  /\ args_stop_on_fail \in BOOLEAN
  /\ args_list \in BOOLEAN
  /\ tasks \in {SessionTasks(n) : n \in 0..MaxTasks}
  /\ pc = "start"
  /\ run_all = FALSE
  /\ parsed = None
  /\ tasks_to_run = <<>>
  /\ idx = 1
  /\ completed_count = 0
  /\ stopped_early = FALSE
  /\ calls = <<>>
  /\ raised_in = {}
  /\ tool_calls = 0
  /\ last_call = None

\* ------------------------------------------------------------------ main: steps
\* lines 111-122: determine which tasks to run.  A ValueError of parse_task_range
\* leaves main.
DetermineTasks ==
  /\ run_all' = (args_task = None)
  /\ IF Truthy(args_task)
     THEN LET r == parse_task_range(args_task[2], Len(tasks))
          IN /\ parsed' = r
             /\ IF r[1] = "ok"
                THEN /\ tasks_to_run' =
                          [k \in 1..(r[3] - r[2] + 1) |->
                             <<r[2] + k - 1, PyIndex(tasks, (r[2] + k - 1) - 1)>>]
                     /\ pc' = "loop"
                ELSE /\ tasks_to_run' = <<>>
                     /\ pc' = "raised"
     ELSE /\ parsed' = None
          /\ tasks_to_run' = [k \in 1..Len(tasks) |-> <<(k - 1) + 1, PyIndex(tasks, k - 1)>>]
          /\ pc' = "loop"
  /\ idx' = 1
  /\ completed_count' = 0
  /\ stopped_early' = FALSE
  /\ UNCHANGED <<args_task, args_stop_on_fail, args_list, tasks, calls, raised_in,
                 tool_calls, last_call>>

\* List mode without its return: the run goes on to select and run tasks.
ListTasks_NoReturn ==
  /\ pc = "start"
  /\ args_list
  /\ DetermineTasks

\* lines 104-109: list mode prints the tasks and returns.
ListTasks ==
  /\ pc = "start"
  /\ args_list
  /\ pc' = "done"
  /\ UNCHANGED <<args_task, args_stop_on_fail, args_list, tasks, run_all, parsed,
                 tasks_to_run, idx, completed_count, stopped_early, calls, raised_in,
                 tool_calls, last_call>>

\* lines 105 and 111-122: not in list mode, main selects the tasks.
SelectTasks ==
  /\ pc = "start"
  /\ ~args_list
  /\ DetermineTasks

\* line 129: core.start_task(task) for the loop's current task.
StartTask ==
  /\ pc = "loop"
  /\ idx <= Len(tasks_to_run)
  /\ calls' = Append(calls, <<"start_task", tasks_to_run[idx][2]>>)
  /\ pc' = "try"
  /\ UNCHANGED <<args_task, args_stop_on_fail, args_list, tasks, run_all, parsed,
                 tasks_to_run, idx, completed_count, stopped_early, raised_in,
                 tool_calls, last_call>>

\* line 131: run_agent(model_id, core, task, provider) is entered.
RunAgent ==
  /\ pc = "try"
  /\ calls' = Append(calls, <<"run_agent", tasks_to_run[idx][2]>>)
  /\ tool_calls' = 0
  /\ last_call' = None
  /\ pc' = "agent"
  /\ UNCHANGED <<args_task, args_stop_on_fail, args_list, tasks, run_all, parsed,
                 tasks_to_run, idx, completed_count, stopped_early, raised_in>>

\* store_agent.py line 309: inside agent.invoke the agent calls one tool at a time
\* and gets the adapter's result.
ToolCall ==
  /\ pc = "agent"
  /\ tool_calls < MaxToolCalls
  /\ \E tool \in ToolNames : \E outcome \in Outcomes(tool) :
       last_call' = <<tool, outcome, create_store_tools(tool, outcome)>>
  /\ tool_calls' = tool_calls + 1
  /\ UNCHANGED <<args_task, args_stop_on_fail, args_list, tasks, pc, run_all, parsed,
                 tasks_to_run, idx, completed_count, stopped_early, calls, raised_in>>

\* run_agent returns; the agent's tools and their results are local to the call.
AgentReturn ==
  /\ pc = "agent"
  /\ tool_calls' = 0
  /\ last_call' = None
  /\ pc' = "complete"
  /\ UNCHANGED <<args_task, args_stop_on_fail, args_list, tasks, run_all, parsed,
                 tasks_to_run, idx, completed_count, stopped_early, calls, raised_in>>

\* run_agent's exception is not caught: it leaves main.
AgentRaise_Propagates ==
  /\ pc = "agent"
  /\ raised_in' = raised_in \cup {tasks_to_run[idx][2]}
  /\ tool_calls' = 0
  /\ last_call' = None
  /\ pc' = "raised"
  /\ UNCHANGED <<args_task, args_stop_on_fail, args_list, tasks, run_all, parsed,
                 tasks_to_run, idx, completed_count, stopped_early, calls>>

\* The handler goes straight to the next task (complete_task inside the try).
AgentRaise_SkipsComplete ==
  /\ pc = "agent"
  /\ raised_in' = raised_in \cup {tasks_to_run[idx][2]}
  /\ tool_calls' = 0
  /\ last_call' = None
  /\ idx' = idx + 1
  /\ pc' = "loop"
  /\ UNCHANGED <<args_task, args_stop_on_fail, args_list, tasks, run_all, parsed,
                 tasks_to_run, completed_count, stopped_early, calls>>

\* lines 132-135: run_agent raises an Exception; main prints it and goes on.
AgentRaise ==
  /\ pc = "agent"
  /\ raised_in' = raised_in \cup {tasks_to_run[idx][2]}
  /\ tool_calls' = 0
  /\ last_call' = None
  /\ pc' = "complete"
  /\ UNCHANGED <<args_task, args_stop_on_fail, args_list, tasks, run_all, parsed,
                 tasks_to_run, idx, completed_count, stopped_early, calls>>

\* A result without an evaluation taken as a pass.
ScoreOf_MissingEvalPasses(eval) == IF eval # None THEN eval[2] ELSE 1

\* lines 140-142: the score of a result.
ScoreOf(eval) == IF eval # None THEN eval[2] ELSE 0

\* lines 137-150: complete_task, count it, score it, stop on fail if requested.
CompleteTask ==
  /\ pc = "complete"
  /\ \E eval \in Evals :
       LET score == ScoreOf(eval)
       IN /\ calls' = Append(calls, <<"complete_task", tasks_to_run[idx][2], eval>>)
          /\ completed_count' = completed_count + 1
          /\ IF args_stop_on_fail /\ score = 0
             THEN /\ stopped_early' = TRUE
                  /\ idx' = idx
                  /\ pc' = "finish"
             ELSE /\ stopped_early' = stopped_early
                  /\ idx' = idx + 1
                  /\ pc' = "loop"
  /\ UNCHANGED <<args_task, args_stop_on_fail, args_list, tasks, run_all, parsed,
                 tasks_to_run, raised_in, tool_calls, last_call>>

\* line 124: tasks_to_run is exhausted.
LoopExit ==
  /\ pc = "loop"
  /\ idx > Len(tasks_to_run)
  /\ pc' = "finish"
  /\ UNCHANGED <<args_task, args_stop_on_fail, args_list, tasks, run_all, parsed,
                 tasks_to_run, idx, completed_count, stopped_early, calls, raised_in,
                 tool_calls, last_call>>

\* lines 152-158: only submit the session if all tasks were run.
Finish ==
  /\ pc = "finish"
  /\ calls' = IF run_all /\ ~stopped_early
              THEN Append(calls, <<"submit_session">>)
              ELSE calls
  /\ pc' = "done"
  /\ UNCHANGED <<args_task, args_stop_on_fail, args_list, tasks, run_all, parsed,
                 tasks_to_run, idx, completed_count, stopped_early, raised_in,
                 tool_calls, last_call>>

Next ==
  \/ ListTasks
  \/ SelectTasks
  \/ StartTask
  \/ RunAgent
  \/ ToolCall
  \/ AgentReturn
  \/ AgentRaise
  \/ CompleteTask
  \/ LoopExit
  \/ Finish

Spec == Init /\ [][Next]_vars

\* parse_task_range applied to every str argument, also those main never passes.
CallParseTaskRange ==
  /\ pc = "start"
  /\ args_task # None
  /\ parsed' = parse_task_range(args_task[2], Len(tasks))
  /\ pc' = "parsed"
  /\ UNCHANGED <<args_task, args_stop_on_fail, args_list, tasks, run_all, tasks_to_run,
                 idx, completed_count, stopped_early, calls, raised_in, tool_calls,
                 last_call>>

SpecParse == Init /\ [][CallParseTaskRange]_vars

\* ------------------------------------------------------------------ reading the calls
IsStart(c) == c[1] = "start_task"
IsComplete(c) == c[1] = "complete_task"
IsStartOrComplete(c) == IsStart(c) \/ IsComplete(c)
IsTaskCall(c) == c[1] \in {"start_task", "run_agent", "complete_task"}

\* The tasks start_task was called on, in call order.
Started == LET s == SelectSeq(calls, IsStart) IN [i \in 1..Len(s) |-> s[i][2]]
\* The tasks complete_task was called on, in call order.
Completed == LET s == SelectSeq(calls, IsComplete) IN [i \in 1..Len(s) |-> s[i][2]]
Range(seq) == {seq[i] : i \in 1..Len(seq)}
Submitted == \E i \in 1..Len(calls) : calls[i][1] = "submit_session"
IsPrefix(a, b) == Len(a) <= Len(b) /\ \A i \in 1..Len(a) : a[i] = b[i]

\* A complete_task call whose result scores zero: no evaluation, or score 0.
ZeroScored(c) == IsComplete(c) /\ (c[3] = None \/ c[3] = <<"eval", 0>>)

C2_SubmittedIffAllRan ==
  (pc = "done" /\ Len(tasks) >= 1) =>
    (Submitted <=>
       (/\ Range(tasks) \subseteq Range(Completed)
        /\ ~stopped_early))

\* ------------------------------------------------------------------ C3
\* C3: every task on which start_task was called gets complete_task called on it,
\* also when its run_agent raised; an exception in run_agent never takes the run out
\* of main; and with stop-on-fail off the loop starts every task of tasks_to_run.
C3_CompletedDespiteException ==
  /\ \A t \in raised_in :
       \/ (pc = "complete" /\ tasks_to_run[idx][2] = t)
       \/ t \in Range(Completed)
  /\ (pc \in {"loop", "finish", "done"}) => Range(Started) = Range(Completed)
  /\ (raised_in # {}) => pc # "raised"
  /\ (pc = "done" /\ ~args_list /\ ~args_stop_on_fail)
       => Started = [k \in 1..Len(tasks_to_run) |-> tasks_to_run[k][2]]

C3_Witness ==
  /\ pc = "done"
  /\ ~args_stop_on_fail
  /\ Len(tasks_to_run) = 3
  /\ tasks_to_run[1][2] \in raised_in
  /\ Len(Completed) = 3

\* ------------------------------------------------------------------ C4
\* C4: a tool adapter never propagates a failure: whatever the dispatch did, the
\* adapter returns; for an ApiException and for any other exception alike the result
\* is exactly {error: message}; for a response it is the serialized response, which
\* is not of the error shape.
C4_UniformErrorShape ==
  last_call # None =>
    LET outcome == last_call[2]
        result == last_call[3]
    IN /\ result[1] = "return"
       /\ outcome[1] \in {"ApiException", "Exception"}
            => result[2] = {<<"error", outcome[2]>>}
       /\ outcome[1] = "ok"
            => /\ result[2] = model_dump_json(outcome[2])
               /\ "error" \notin Keys(result[2])

C4_Witness ==
  /\ last_call # None
  /\ last_call[1] = "checkout_basket"
  /\ last_call[2] = <<"Exception", "timeout">>
  /\ last_call[3] = <<"return", {<<"error", "timeout">>}>>

\* ------------------------------------------------------------------ C5
\* C5: the runner is strictly sequential: start_task and complete_task calls
\* alternate, each complete_task is for the task just started, at most one task is
\* between start and completion, and every run_agent call comes right after the
\* start_task of its task and before any other harness call than that task's
\* complete_task.
C5_StrictlySequential ==
  LET sc == SelectSeq(calls, IsStartOrComplete)
  IN /\ \A i \in 1..Len(sc) :
          IF i % 2 = 1 THEN IsStart(sc[i])
          ELSE IsComplete(sc[i]) /\ sc[i][2] = sc[i - 1][2]
     /\ Len(Started) - Len(Completed) \in {0, 1}
     /\ \A i \in 1..Len(calls) :
          calls[i][1] = "run_agent" =>
            /\ i > 1 /\ calls[i - 1] = <<"start_task", calls[i][2]>>
            /\ i < Len(calls) => (IsComplete(calls[i + 1]) /\ calls[i + 1][2] = calls[i][2])

C5_Witness ==
  /\ pc = "agent"
  /\ Len(Completed) = 2
  /\ Len(Started) = 3
  /\ raised_in # {}

\* ------------------------------------------------------------------ C6
\* C6: with stop-on-fail on, a complete_task whose result scores zero (score 0, or
\* no evaluation) is the last harness call of the run; with stop-on-fail off a zero
\* score stops nothing: the run ends with every task of tasks_to_run completed.
C6_StopOnFirstZero ==
  /\ args_stop_on_fail =>
       \A i \in 1..Len(calls) : ZeroScored(calls[i]) => i = Len(calls)
  /\ (~args_stop_on_fail /\ ~args_list /\ pc = "done") =>
       /\ Len(Completed) = Len(tasks_to_run)
       /\ ~stopped_early

C6_Witness ==
  /\ args_stop_on_fail
  /\ pc = "done"
  /\ Len(tasks_to_run) = 3
  /\ Len(calls) = 6
  /\ calls[3] = <<"complete_task", 10, <<"eval", 1>>>>
  /\ calls[6] = <<"complete_task", 20, None>>

\* ------------------------------------------------------------------ C9
\* The tasks the selection names: positions start..end of the session's tasks for a
\* parsed task argument, all of them without one.
Selected ==
  IF parsed # None /\ parsed[1] = "ok"
  THEN [k \in 1..(parsed[3] - parsed[2] + 1) |-> tasks[parsed[2] + k - 1]]
  ELSE tasks

\* C9 as stated: when the loop has been left, the tasks started are exactly the
\* selected ones, in order, and completed_count is the number of complete_task
\* calls, at most the number of selected tasks.
C9_StartedExactlySelected ==
  (pc \in {"finish", "done"} /\ ~args_list) =>
    /\ Started = Selected
    /\ completed_count = Len(Completed)
    /\ completed_count <= Len(Selected)

\* C9, amended: the tasks started are always a prefix of the selected ones (session
\* positions start..end in ascending order, or all tasks without a task argument),
\* each started at most once; when the loop is left without a stop-on-fail break
\* they are exactly the selected ones; completed_count is the number of
\* complete_task calls made and never exceeds the number of selected tasks.
C9_StartedPrefixOfSelected ==
  (pc \notin {"start", "raised"} /\ ~args_list) =>
    /\ IsPrefix(Started, Selected)
    /\ \A i, j \in 1..Len(Started) : Started[i] = Started[j] => i = j
    /\ (pc \in {"finish", "done"} /\ ~stopped_early) => Started = Selected
    /\ completed_count = Len(Completed)
    /\ completed_count <= Len(Selected)

C9_Witness ==
  /\ pc = "done"
  /\ parsed = <<"ok", 2, 3>>
  /\ Started = <<20, 30>>
  /\ completed_count = 2

\* ------------------------------------------------------------------ C10
\* C10: in list mode no start_task, run_agent, complete_task or submit_session call
\* is ever made, whatever -t and -s are, and the run ends right after the listing.
C10_ListModeCallsNothing ==
  args_list => (calls = <<>> /\ pc \in {"start", "done"} /\ tasks_to_run = <<>>)

C10_Witness ==
  /\ args_list
  /\ pc = "done"
  /\ args_task = Str(<<"1", "-", "2">>)
  /\ args_stop_on_fail
  /\ Len(tasks) = 3

====
